---- MODULE Spec2Model ----
(***************************************************************************)
(* LazyDatabricks: the armed-mode guard (ArmedGuard) and the safe-call     *)
(* convention of the TUI screens around it.                                *)
(*                                                                         *)
(* Time.  time.time() is a float number of seconds.  The model's clock     *)
(* `now` counts ticks of 1/TicksPerSec seconds, so that both whole-second  *)
(* and sub-second gaps between two readings of the clock exist.  The clock *)
(* starts at 1: the epoch clock never reads 0.0, the value the guard uses  *)
(* as its "disarmed" sentinel.                                             *)
(***************************************************************************)
EXTENDS Integers, FiniteSets, Bags

VARIABLES
    now,          \* the wall clock, in ticks
    ttl_seconds,  \* ArmedGuard.ttl_seconds
    armed_at,     \* ArmedGuard._armed_at, in ticks; 0 is the disarmed sentinel
    last_arm,     \* clock reading of the latest Arm step, 0 before the first
                  \* (kept only for a guard that is driven directly, as in Spec)
    prev_arm,     \* the _armed_at the latest Arm step overwrote (0: the guard
                  \* was disarmed, or no Arm step yet)
    read,         \* the latest read of is_armed / remaining_seconds
    reader,       \* a thread other than the UI thread inside is_armed: where it
                  \* is and what it has computed (idle unless RaceSpec runs)
    read_only,    \* LazyBricksConfig.read_only, shared by every worker
    workers,      \* the destructive-action thread workers in flight (a bag)
    screen,       \* the main screen whose key bindings are active
    toast,        \* the notification on display: the latest app.notify, until
                  \* the next key press or until time passes
    view          \* the list view of the screen: the list fetches and run
                  \* loads in flight and what its tables show (followed only
                  \* when ViewSpec runs)

guardVars == <<now, ttl_seconds, armed_at, last_arm, prev_arm, read, reader>>
appVars   == <<read_only, workers, screen, toast, view>>
vars      == <<now, ttl_seconds, armed_at, last_arm, prev_arm, read, reader,
               read_only, workers, screen, toast, view>>

----------------------------------------------------------------------------
(* Bounds of the model *)

TicksPerSec == 2      \* clock resolution: ticks per second
MaxTTL      == 2      \* ttl_seconds ranges over 1..MaxTTL
MaxTime     == 7      \* the clock stops advancing at MaxTime ticks
MaxReadDelay == 1     \* ticks that may pass between the two clock readings
                      \* of one remaining_seconds call
MaxWorkers  == 2      \* worker threads that can be in flight together
AppMaxTime  == 4      \* the clock stops at AppMaxTime ticks when the screens run
AppTTL      == 1      \* the ttl_seconds the app gives its guard (30 in the
                      \* source), scaled to the clock bound
MaxFetches  == 3      \* list fetches a screen starts in one run
MaxJobs     == 2      \* jobs in the jobs list
MaxLoads    == 2      \* run-list loads that can be in flight together

TTLs == 1..MaxTTL

----------------------------------------------------------------------------
(* ArmedGuard: src/lazydatabricks/api/guard.py *)

\* _armed_at: float = 0.0
InitArmedAtClock == now

InitArmedAt == 0

\* ttl_seconds, in ticks of the clock
TTLTicks == ttl_seconds * TicksPerSec

Max(a, b) == IF a >= b THEN a ELSE b

\* int(n / d) for a float quotient: Python's int() truncates toward zero
TruncUp(n, d) == IF n >= 0 THEN (n + d - 1) \div d ELSE -((-n) \div d)

Trunc(n, d) == IF n >= 0 THEN n \div d ELSE -((-n) \div d)

\* is_armed read at clock reading t with _armed_at = at: the value returned
\* and the _armed_at it leaves behind (the lazy auto-disarm)
is_armed_ge(at, t) ==
    IF at = 0 THEN [value |-> FALSE, armed_at |-> at]
    ELSE IF t - at >= TTLTicks THEN [value |-> FALSE, armed_at |-> 0]
    ELSE [value |-> TRUE, armed_at |-> at]

is_armed_keep(at, t) ==
    IF at = 0 THEN [value |-> FALSE, armed_at |-> at]
    ELSE IF t - at > TTLTicks THEN [value |-> FALSE, armed_at |-> at]
    ELSE [value |-> TRUE, armed_at |-> at]

is_armed(at, t) ==
    IF at = 0 THEN [value |-> FALSE, armed_at |-> at]
    ELSE IF t - at > TTLTicks THEN [value |-> FALSE, armed_at |-> 0]
    ELSE [value |-> TRUE, armed_at |-> at]

\* remaining_seconds: is_armed at clock reading t, then a second clock
\* reading t2 >= t for the subtraction
remaining_seconds_elapsed(at, t, t2) ==
    LET a == is_armed(at, t) IN
    IF ~a.value THEN [value |-> 0, armed |-> FALSE, armed_at |-> a.armed_at]
    ELSE [value |-> Max(0, Trunc(t2 - a.armed_at, TicksPerSec)),
          armed |-> TRUE, armed_at |-> a.armed_at]

remaining_seconds_plus_one(at, t, t2) ==
    LET a == is_armed(at, t) IN
    IF ~a.value THEN [value |-> 0, armed |-> FALSE, armed_at |-> a.armed_at]
    ELSE [value |-> Max(0, Trunc(TTLTicks - (t2 - a.armed_at), TicksPerSec) + 1),
          armed |-> TRUE, armed_at |-> a.armed_at]

remaining_seconds(at, t, t2) ==
    LET a == is_armed(at, t) IN
    IF ~a.value THEN [value |-> 0, armed |-> FALSE, armed_at |-> a.armed_at]
    ELSE [value |-> Max(0, Trunc(TTLTicks - (t2 - a.armed_at), TicksPerSec)),
          armed |-> TRUE, armed_at |-> a.armed_at]

\* status_display: is_armed at clock reading t; when it is true, the text
\* embeds remaining_seconds, which reads is_armed again at t2 >= t and the
\* clock once more at t3 >= t2. The text is given by the parts it contains.
status_display_by_remaining(at, t, t2, t3) ==
    LET a == is_armed(at, t)
        r == remaining_seconds(a.armed_at, t2, t3) IN
    IF r.value > 0
    THEN [parts |-> {"ARMED", "countdown"}, seconds |-> r.value,
          armed_at |-> r.armed_at]
    ELSE [parts |-> {"READ-ONLY"}, seconds |-> -1, armed_at |-> r.armed_at]

status_display(at, t, t2, t3) ==
    LET a == is_armed(at, t) IN
    IF a.value
    THEN LET r == remaining_seconds(a.armed_at, t2, t3) IN
         [parts |-> {"ARMED", "countdown"}, seconds |-> r.value,
          armed_at |-> r.armed_at]
    ELSE [parts |-> {"READ-ONLY"}, seconds |-> -1, armed_at |-> a.armed_at]

\* Header._update_armed_status: is_armed at t, remaining_seconds at t2, t3
\* for armed_display, and, when the header is armed, one more
\* remaining_seconds at t4 for the text of the widget
update_armed_status_by_remaining(at, t, t2, t3, t4) ==
    LET a == is_armed(at, t)
        r == remaining_seconds(a.armed_at, t2, t3)
        w == remaining_seconds(r.armed_at, t4, t4) IN
    [is_armed |-> r.value > 0,
     parts |-> IF a.value THEN {"ARMED", "countdown"} ELSE {"READ-ONLY"},
     seconds |-> IF a.value THEN r.value ELSE -1,
     armed_at |-> w.armed_at]

update_armed_status(at, t, t2, t3, t4) ==
    LET a == is_armed(at, t) IN
    IF a.value
    THEN LET r == remaining_seconds(a.armed_at, t2, t3)
             w == remaining_seconds(r.armed_at, t4, t4) IN
         [is_armed |-> TRUE, parts |-> {"ARMED", "countdown"},
          seconds |-> r.value, armed_at |-> w.armed_at]
    ELSE [is_armed |-> FALSE, parts |-> {"READ-ONLY"}, seconds |-> -1,
          armed_at |-> a.armed_at]

\* `display` of a read: what status_display returned, or the header's
\* is_armed and armed_display after a refresh; before any, the header's
\* initial values
NoDisplay == [is_armed |-> FALSE, parts |-> {"READ-ONLY"}, seconds |-> -1]

\* `before` of a read: the latest remaining_seconds read made before it with
\* no arm() between the two; `rearmed`: arm() was called since the read
NoBefore == [value |-> -1, t2 |-> 0, last_arm |-> 0]

NoRead == [kind |-> "none", at |-> 0, t |-> 0, t2 |-> 0, last_arm |-> 0,
           armed |-> FALSE, value |-> 0, left |-> 0, before |-> NoBefore,
           rearmed |-> FALSE, display |-> NoDisplay]

LastRemaining(r) ==
    IF r.rearmed THEN NoBefore
    ELSE IF r.kind = "remaining_seconds"
    THEN [value |-> r.value, t2 |-> r.t2, last_arm |-> r.last_arm]
    ELSE r.before

ReaderIdle == [pc |-> "idle", expired |-> FALSE]

GuardInit ==
    /\ now = 1
    /\ reader = ReaderIdle
    /\ ttl_seconds \in TTLs
    /\ armed_at = InitArmedAt
    /\ last_arm = 0
    /\ prev_arm = 0
    /\ read = NoRead

\* the list view before the screen is mounted: nothing fetched, nothing
\* selected, empty tables.  `started` counts the list fetches started, a
\* fetch is known by its number n, and `table` is the number of the fetch
\* whose rows the list table shows; `runs_of` is the job whose runs the runs
\* table shows (0: none).
ViewInit == [fetches |-> {}, started |-> 0, table |-> 0, rows |-> FALSE,
             selected_job |-> 0, loads |-> {}, runs_of |-> 0]

AppIdleInit ==
    /\ read_only = TRUE
    /\ workers = EmptyBag
    /\ screen = "home"
    /\ toast = [severity |-> "none", text |-> "none"]
    /\ view = ViewInit

\* the clock advances
Tick ==
    /\ now < MaxTime
    /\ now' = now + 1
    /\ UNCHANGED <<ttl_seconds, reader, armed_at, last_arm, prev_arm, read>>
    /\ UNCHANGED appVars

\* ArmedGuard.arm()
ArmIfDisarmed ==
    /\ armed_at' = IF armed_at = 0 THEN now ELSE armed_at
    /\ last_arm' = now
    /\ prev_arm' = armed_at
    /\ read' = [read EXCEPT !.rearmed = TRUE]
    /\ UNCHANGED <<now, ttl_seconds, reader>>
    /\ UNCHANGED appVars

Arm ==
    /\ armed_at' = now
    /\ last_arm' = now
    /\ prev_arm' = armed_at
    /\ read' = [read EXCEPT !.rearmed = TRUE]
    /\ UNCHANGED <<now, ttl_seconds, reader>>
    /\ UNCHANGED appVars

\* ArmedGuard.disarm()
DisarmToggle ==
    /\ armed_at' = IF armed_at = 0 THEN now ELSE 0
    /\ UNCHANGED <<now, ttl_seconds, reader, last_arm, prev_arm, read>>
    /\ UNCHANGED appVars

Disarm ==
    /\ armed_at' = 0
    /\ UNCHANGED <<now, ttl_seconds, reader, last_arm, prev_arm, read>>
    /\ UNCHANGED appVars

\* a read of the is_armed property
ReadIsArmed ==
    LET a == is_armed(armed_at, now) IN
    /\ armed_at' = a.armed_at
    /\ read' = [kind |-> "is_armed", at |-> armed_at, t |-> now, t2 |-> now,
                last_arm |-> last_arm, armed |-> a.value, value |-> 0,
                left |-> a.armed_at, before |-> LastRemaining(read),
                rearmed |-> FALSE, display |-> NoDisplay]
    /\ UNCHANGED <<now, ttl_seconds, reader, last_arm, prev_arm>>
    /\ UNCHANGED appVars

\* a read of the remaining_seconds property; d ticks pass between the clock
\* reading inside is_armed and the one of the subtraction
ReadRemaining ==
    \E d \in 0..MaxReadDelay :
        LET r == remaining_seconds(armed_at, now, now + d) IN
        /\ now + d <= MaxTime
        /\ now' = now + d
        /\ armed_at' = r.armed_at
        /\ read' = [kind |-> "remaining_seconds", at |-> armed_at, t |-> now,
                    t2 |-> now + d, last_arm |-> last_arm, armed |-> r.armed,
                    value |-> r.value, left |-> r.armed_at,
                    before |-> LastRemaining(read), rearmed |-> FALSE,
                    display |-> NoDisplay]
        /\ UNCHANGED <<ttl_seconds, reader, last_arm, prev_arm>>
        /\ UNCHANGED appVars

\* a read of the status_display property
ReadStatusDisplay ==
    \E d \in 0..MaxReadDelay, e \in 0..MaxReadDelay :
        LET sd == status_display(armed_at, now, now + d, now + d + e)
            a == is_armed(armed_at, now) IN
        /\ now + d + e <= MaxTime
        /\ now' = now + d + e
        /\ armed_at' = sd.armed_at
        /\ read' = [kind |-> "status_display", at |-> armed_at, t |-> now,
                    t2 |-> now + d + e, last_arm |-> last_arm,
                    armed |-> a.value, value |-> Max(0, sd.seconds),
                    left |-> sd.armed_at, before |-> LastRemaining(read),
                    rearmed |-> FALSE,
                    display |-> [is_armed |-> FALSE, parts |-> sd.parts,
                                 seconds |-> sd.seconds]]
        /\ UNCHANGED <<ttl_seconds, reader, last_arm, prev_arm>>
        /\ UNCHANGED appVars

\* a refresh of the header, on mount and then on its one-second timer
HeaderRefresh ==
    \E d \in 0..MaxReadDelay, e \in 0..MaxReadDelay, f \in 0..MaxReadDelay :
        LET h == update_armed_status(armed_at, now, now + d, now + d + e,
                                     now + d + e + f)
            a == is_armed(armed_at, now) IN
        /\ now + d + e + f <= MaxTime
        /\ now' = now + d + e + f
        /\ armed_at' = h.armed_at
        /\ read' = [kind |-> "header", at |-> armed_at, t |-> now,
                    t2 |-> now + d + e + f, last_arm |-> last_arm,
                    armed |-> a.value, value |-> Max(0, h.seconds),
                    left |-> h.armed_at, before |-> LastRemaining(read),
                    rearmed |-> FALSE,
                    display |-> [is_armed |-> h.is_armed, parts |-> h.parts,
                                 seconds |-> h.seconds]]
        /\ UNCHANGED <<ttl_seconds, reader, last_arm, prev_arm>>
        /\ UNCHANGED appVars

Init == GuardInit /\ AppIdleInit

Next ==
    \/ Tick
    \/ Arm
    \/ Disarm
    \/ ReadIsArmed
    \/ ReadRemaining

Spec == Init /\ [][Next]_vars

\* the guard driven by arm() and disarm() and read through the two displays
DisplayNext ==
    \/ Tick
    \/ Arm
    \/ Disarm
    \/ ReadStatusDisplay
    \/ HeaderRefresh

DisplaySpec == Init /\ [][DisplayNext]_vars

----------------------------------------------------------------------------
(* is_armed read on a thread other than the UI thread.  The property is     *)
(* plain Python with no lock: between any two of its statements the UI      *)
(* thread may run arm() or disarm(), each a single store to _armed_at.      *)
(* remaining_seconds starts by reading is_armed and writes nothing itself,  *)
(* so the reader below stands for a read of either property.                *)

\* the thread enters the is_armed property
ReaderCall ==
    /\ reader.pc = "idle"
    /\ reader' = [pc |-> "test", expired |-> FALSE]
    /\ UNCHANGED <<now, ttl_seconds, armed_at, last_arm, prev_arm, read>>
    /\ UNCHANGED appVars

\* if self._armed_at == 0.0: return False
ReaderTest ==
    /\ reader.pc = "test"
    /\ reader' = IF armed_at = 0 THEN ReaderIdle
                 ELSE [pc |-> "elapsed", expired |-> FALSE]
    /\ UNCHANGED <<now, ttl_seconds, armed_at, last_arm, prev_arm, read>>
    /\ UNCHANGED appVars

\* elapsed = time.time() - self._armed_at; if elapsed > self.ttl_seconds:
\* (measured against a timestamp cleared meanwhile, elapsed is the whole
\* epoch time, far beyond any TTL)
ReaderElapsed ==
    /\ reader.pc = "elapsed"
    /\ reader' = [pc |-> "decide",
                  expired |-> (armed_at = 0 \/ now - armed_at > TTLTicks)]
    /\ UNCHANGED <<now, ttl_seconds, armed_at, last_arm, prev_arm, read>>
    /\ UNCHANGED appVars

\* self._armed_at = 0.0; return False  -  or  -  return True
ReaderDecide ==
    /\ reader.pc = "decide"
    /\ armed_at' = IF reader.expired THEN 0 ELSE armed_at
    /\ reader' = ReaderIdle
    /\ UNCHANGED <<now, ttl_seconds, last_arm, prev_arm, read>>
    /\ UNCHANGED appVars

\* the clock, the UI thread's arm() and disarm(), and the reading thread
RaceNext ==
    \/ Tick
    \/ Arm
    \/ Disarm
    \/ ReaderCall
    \/ ReaderTest
    \/ ReaderElapsed
    \/ ReaderDecide

RaceSpec == Init /\ [][RaceNext]_vars

----------------------------------------------------------------------------
(* The mutating operations: ClusterOps, JobOps, PipelineOps, WarehouseOps   *)
(* and the screen handlers that call them                                   *)

\* the destructive actions of the four screens
Ops == {"cluster_start", "cluster_terminate", "cluster_restart",
        "job_run_now", "job_cancel_run", "job_rerun",
        "pipeline_start_update", "pipeline_full_refresh", "pipeline_stop",
        "warehouse_start", "warehouse_stop"}

\* the screens that bind destructive actions, and the actions each binds
Screens == {"clusters", "jobs", "pipelines", "warehouses"}

ScreenOps(s) ==
    CASE s = "clusters"   -> {"cluster_start", "cluster_terminate", "cluster_restart"}
      [] s = "jobs"       -> {"job_run_now", "job_cancel_run", "job_rerun"}
      [] s = "pipelines"  -> {"pipeline_start_update", "pipeline_full_refresh",
                              "pipeline_stop"}
      [] s = "warehouses" -> {"warehouse_start", "warehouse_stop"}
      [] OTHER            -> {}

\* the status an operation returns when the SDK call goes through
SuccessStatus(op) ==
    CASE op = "cluster_start"         -> "started"
      [] op = "cluster_terminate"     -> "terminated"
      [] op = "cluster_restart"       -> "restarting"
      [] op = "job_run_now"           -> "submitted"
      [] op = "job_cancel_run"        -> "cancelled"
      [] op = "job_rerun"             -> "rerun_submitted"
      [] op = "pipeline_start_update" -> "started"
      [] op = "pipeline_full_refresh" -> "started"
      [] op = "pipeline_stop"         -> "stopped"
      [] op = "warehouse_start"       -> "starting"
      [] op = "warehouse_stop"        -> "stopping"

\* the status the screen's worker compares the result with
ExpectedStatus(op) ==
    CASE op = "cluster_start"         -> "started"
      [] op = "cluster_terminate"     -> "terminated"
      [] op = "cluster_restart"       -> "restarting"
      [] op = "job_run_now"           -> "submitted"
      [] op = "job_cancel_run"        -> "cancelled"
      [] op = "job_rerun"             -> "rerun_submitted"
      [] op = "pipeline_start_update" -> "started"
      [] op = "pipeline_full_refresh" -> "started"
      [] op = "pipeline_stop"         -> "stopped"
      [] op = "warehouse_start"       -> "started"
      [] op = "warehouse_stop"        -> "stopped"

\* the fallback text of notify_error when the result carries no "error" key
FailText(op) ==
    CASE op \in {"cluster_start", "pipeline_start_update",
                 "pipeline_full_refresh", "warehouse_start"} -> "Failed to start"
      [] op = "cluster_terminate" -> "Failed to terminate"
      [] op = "cluster_restart"   -> "Failed to restart"
      [] op = "job_run_now"       -> "Failed to trigger"
      [] op = "job_cancel_run"    -> "Failed to cancel"
      [] op = "job_rerun"         -> "Failed to rerun"
      [] op \in {"pipeline_stop", "warehouse_stop"} -> "Failed to stop"

\* whether the worker posts its notification through self.app.call_from_thread
\* (the clusters and pipelines screens) or through self.call_from_thread (the
\* jobs and warehouses screens)
NotifiesViaApp(op) ==
    op \in {"cluster_start", "cluster_terminate", "cluster_restart",
            "pipeline_start_update", "pipeline_full_refresh", "pipeline_stop"}

ClusterStates == {"PENDING", "RUNNING", "RESTARTING", "RESIZING", "TERMINATING",
                  "TERMINATED", "ERROR", "UNKNOWN"}
RunStates == {"PENDING", "RUNNING", "TERMINATING", "TERMINATED", "SKIPPED",
              "INTERNAL_ERROR", "BLOCKED", "WAITING_FOR_RETRY", "QUEUED", "UNKNOWN"}
PipelineStates == {"IDLE", "RUNNING", "FAILED", "DELETED", "UNKNOWN"}
WarehouseStates == {"STARTING", "RUNNING", "STOPPING", "STOPPED", "DELETING",
                    "DELETED", "UNKNOWN"}

\* RunState.is_active
RunIsActive(s) == s \in {"PENDING", "RUNNING", "QUEUED", "BLOCKED", "WAITING_FOR_RETRY"}

\* PipelineState.is_active
PipelineIsActive(s) == s = "RUNNING"

\* the states the entity selected for an action can be in (the state as of
\* the last list fetch)
SelectedStates(op) ==
    (CASE op \in {"cluster_start", "cluster_terminate", "cluster_restart"} -> ClusterStates
       [] op = "job_run_now" -> {"JOB"}
       [] op \in {"job_cancel_run", "job_rerun"} -> RunStates
       [] op \in {"pipeline_start_update", "pipeline_full_refresh", "pipeline_stop"}
             -> PipelineStates
       [] op \in {"warehouse_start", "warehouse_stop"} -> WarehouseStates)

\* the state check a handler makes on the selected entity before the armed check
StateFitsTerminateAny(op, s) ==
    CASE op = "cluster_start"         -> s = "TERMINATED"
      [] op = "cluster_terminate"     -> TRUE
      [] op = "cluster_restart"       -> s = "RUNNING"
      [] op = "job_run_now"           -> TRUE
      [] op = "job_cancel_run"        -> RunIsActive(s)
      [] op = "job_rerun"             -> ~RunIsActive(s)
      [] op = "pipeline_start_update" -> ~PipelineIsActive(s)
      [] op = "pipeline_full_refresh" -> ~PipelineIsActive(s)
      [] op = "pipeline_stop"         -> PipelineIsActive(s)
      [] op = "warehouse_start"       -> s = "STOPPED"
      [] op = "warehouse_stop"        -> s = "RUNNING"

StateFits(op, s) ==
    CASE op = "cluster_start"         -> s = "TERMINATED"
      [] op = "cluster_terminate"     -> s # "TERMINATED"
      [] op = "cluster_restart"       -> s = "RUNNING"
      [] op = "job_run_now"           -> TRUE
      [] op = "job_cancel_run"        -> RunIsActive(s)
      [] op = "job_rerun"             -> ~RunIsActive(s)
      [] op = "pipeline_start_update" -> ~PipelineIsActive(s)
      [] op = "pipeline_full_refresh" -> ~PipelineIsActive(s)
      [] op = "pipeline_stop"         -> PipelineIsActive(s)
      [] op = "warehouse_start"       -> s = "STOPPED"
      [] op = "warehouse_stop"        -> s = "RUNNING"

\* what a handler finds selected: nothing, an entity whose state fits the
\* action, or one whose state does not
Selections(op) ==
    {"NONE"} \cup {IF StateFits(op, s) THEN "FITS" ELSE "MISFIT" : s \in SelectedStates(op)}

\* messages of the exceptions the SDK can raise
Msgs == {"network unreachable"}

ReadOnlyMsg == "Read-only mode - arm to enable actions"

\* return {"status": "error", "error": "Read-only mode ..."}
ReadOnlyResult == [status |-> "error", error |-> ReadOnlyMsg]

\* except Exception as e: return {"status": "error", "error": str(e)}
ErrorResultGeneric(m) == [status |-> "error", error |-> "request failed"]

ErrorResult(m) == [status |-> "error", error |-> m]

\* return {"status": "<success verb>", ...}
SuccessResult(op) == [status |-> SuccessStatus(op), error |-> "none"]

\* DatabricksClient.is_read_only
is_read_only == read_only

\* a thread worker just started for `op`
NewWorker(op) == [pc |-> "begin", op |-> op, calls |-> 0, exc |-> "none",
                  status |-> "none", error |-> "none"]

\* the workers in flight
InFlight == BagToSet(workers)

AllIdle == workers = EmptyBag

\* the bag of workers after worker w moved on to w2, and after it ended
Moved(w, w2) == (workers (-) SetToBag({w})) (+) SetToBag({w2})

Ended(w) == workers (-) SetToBag({w})

Toast(severity, text) == [severity |-> severity, text |-> text]

NoToast == Toast("none", "none")

\* BaseScreen.require_armed: the guard's is_armed, with its lazy auto-disarm
require_armed_always(at, t) == [value |-> TRUE, armed_at |-> at]

require_armed(at, t) == is_armed(at, t)

AppInit ==
    /\ GuardInit
    /\ ttl_seconds = AppTTL
    /\ read_only = TRUE
    /\ workers = EmptyBag
    /\ screen \in Screens
    /\ toast = NoToast
    /\ view = ViewInit

\* the clock advances while the screens run
AppTick ==
    /\ now < AppMaxTime
    /\ now' = now + 1
    /\ toast' = NoToast
    /\ UNCHANGED <<ttl_seconds, reader, armed_at, last_arm, prev_arm, read, read_only,
                   workers, screen, view>>

\* Escape with a main screen on top: LazyBricksApp.action_back pops only a
\* modal screen, and the jobs and pipelines screens' action_back_up moves the
\* focus one pane to the left; neither touches the guard
PressEscape ==
    /\ screen \in Screens
    /\ UNCHANGED vars

\* LazyBricksApp.action_toggle_armed
ToggleArmedArmOnly ==
    /\ armed_at' = now
    /\ toast' = Toast("warning", "armed")
    /\ UNCHANGED <<now, ttl_seconds, reader, last_arm, prev_arm, read, read_only,
                            workers, screen, view>>

ToggleArmed ==
    LET a == is_armed(armed_at, now) IN
    /\ IF a.value
       THEN /\ armed_at' = 0
            /\ toast' = Toast("information", "disarmed")
       ELSE /\ armed_at' = now
            /\ toast' = Toast("warning", "armed")
    /\ UNCHANGED <<now, ttl_seconds, reader, last_arm, prev_arm, read, read_only,
                            workers, screen, view>>

\* LazyBricksApp.action_go_<screen>: switch_screen, taken here only while no
\* worker is in flight
GoScreen(s) ==
    /\ AllIdle
    /\ screen' = s
    /\ toast' = NoToast
    /\ UNCHANGED <<read_only, workers, view>>
    /\ UNCHANGED guardVars

\* a screen's action_<op> handler, on the UI thread, finding `sel` selected:
\* it returns when nothing is selected, warns when the selected entity's state
\* does not fit, warns when the guard is not armed, and otherwise starts the
\* thread worker _do_<op>
Request(op, sel) ==
    IF sel = "NONE" THEN
        /\ toast' = NoToast
        /\ UNCHANGED <<read_only, workers, screen, view>>
        /\ UNCHANGED guardVars
    ELSE IF sel = "MISFIT" THEN
        /\ toast' = Toast("warning", "state")
        /\ UNCHANGED <<read_only, workers, screen, view>>
        /\ UNCHANGED guardVars
    ELSE
        LET a == require_armed(armed_at, now) IN
        IF ~a.value THEN
            /\ armed_at' = a.armed_at
            /\ toast' = Toast("warning", "arm")
            /\ UNCHANGED <<now, ttl_seconds, reader, last_arm, prev_arm, read, read_only,
                            workers, screen, view>>
        ELSE
            /\ BagCardinality(workers) < MaxWorkers
            /\ workers' = workers (+) SetToBag({NewWorker(op)})
            /\ armed_at' = a.armed_at
            /\ toast' = NoToast
            /\ UNCHANGED <<now, ttl_seconds, reader, last_arm, prev_arm, read, read_only, screen, view>>

\* _do_<op>, first statement: client.config.read_only = False
WorkerBeginNoOverride(w) ==
    /\ w.pc = "begin"
    /\ read_only' = read_only
    /\ workers' = Moved(w, [w EXCEPT !.pc = "call"])
    /\ UNCHANGED <<screen, toast, view>>
    /\ UNCHANGED guardVars

WorkerBegin(w) ==
    /\ w.pc = "begin"
    /\ read_only' = FALSE
    /\ workers' = Moved(w, [w EXCEPT !.pc = "call"])
    /\ UNCHANGED <<screen, toast, view>>
    /\ UNCHANGED guardVars

\* <Ops>.<op>(): the read-only check; when it passes the SDK call is issued
OpCallChecksGuard(w) ==
    /\ w.pc = "call"
    /\ IF is_read_only \/ ~is_armed(armed_at, now).value
       THEN workers' = Moved(w, [w EXCEPT !.pc = "report",
                                          !.status = ReadOnlyResult.status,
                                          !.error = ReadOnlyResult.error])
       ELSE workers' = Moved(w, [w EXCEPT !.pc = "sdk", !.calls = w.calls + 1])
    /\ UNCHANGED <<read_only, screen, toast, view>>
    /\ UNCHANGED guardVars

OpCallCountsRefusal(w) ==
    /\ w.pc = "call"
    /\ IF is_read_only
       THEN workers' = Moved(w, [w EXCEPT !.pc = "report",
                                          !.calls = w.calls + 1,
                                          !.status = ReadOnlyResult.status,
                                          !.error = ReadOnlyResult.error])
       ELSE workers' = Moved(w, [w EXCEPT !.pc = "sdk", !.calls = w.calls + 1])
    /\ UNCHANGED <<read_only, screen, toast, view>>
    /\ UNCHANGED guardVars

OpCall(w) ==
    /\ w.pc = "call"
    /\ IF is_read_only
       THEN workers' = Moved(w, [w EXCEPT !.pc = "report",
                                          !.status = ReadOnlyResult.status,
                                          !.error = ReadOnlyResult.error])
       ELSE workers' = Moved(w, [w EXCEPT !.pc = "sdk", !.calls = w.calls + 1])
    /\ UNCHANGED <<read_only, screen, toast, view>>
    /\ UNCHANGED guardVars

\* the SDK call returns normally
SdkReturnRearm(w) ==
    /\ w.pc = "sdk"
    /\ workers' = Moved(w, [w EXCEPT !.pc = "report",
                                      !.status = SuccessResult(w.op).status,
                                      !.error = SuccessResult(w.op).error])
    /\ armed_at' = now
    /\ UNCHANGED <<read_only, screen, toast, view>>
    /\ UNCHANGED <<now, ttl_seconds, last_arm, prev_arm, read, reader>>

SdkReturn(w) ==
    /\ w.pc = "sdk"
    /\ workers' = Moved(w, [w EXCEPT !.pc = "report",
                                      !.status = SuccessResult(w.op).status,
                                      !.error = SuccessResult(w.op).error])
    /\ UNCHANGED <<read_only, screen, toast, view>>
    /\ UNCHANGED guardVars

\* the SDK call raises an exception with message m, caught by the operation
SdkRaiseRetry(w, m) ==
    /\ w.pc = "sdk"
    /\ workers' = Moved(w, [w EXCEPT !.pc = "call",
                                      !.exc = m,
                                      !.status = ErrorResult(m).status,
                                      !.error = ErrorResult(m).error])
    /\ UNCHANGED <<read_only, screen, toast, view>>
    /\ UNCHANGED guardVars

SdkRaise(w, m) ==
    /\ w.pc = "sdk"
    /\ workers' = Moved(w, [w EXCEPT !.pc = "report",
                                      !.exc = m,
                                      !.status = ErrorResult(m).status,
                                      !.error = ErrorResult(m).error])
    /\ UNCHANGED <<read_only, screen, toast, view>>
    /\ UNCHANGED guardVars

\* the notification the worker asks the UI thread to show for its result
ResultToast(op, status, error) ==
    IF status = ExpectedStatus(op) THEN Toast("information", "success")
    ELSE Toast("error", IF error = "none" THEN FailText(op) ELSE error)

\* _do_<op>: the result is compared and notify_success / notify_error is
\* posted to the UI thread
WorkerReport(w) ==
    /\ w.pc = "report"
    /\ toast' = ResultToast(w.op, w.status, w.error)
    /\ workers' = Moved(w, [w EXCEPT !.pc = "finally"])
    /\ UNCHANGED <<read_only, screen, view>>
    /\ UNCHANGED guardVars

\* _do_<op>: posting through self.call_from_thread raises inside the worker
\* when the screen object offers no such method; nothing is shown
WorkerReportRaises(w) ==
    /\ w.pc = "report"
    /\ ~NotifiesViaApp(w.op)
    /\ workers' = Moved(w, [w EXCEPT !.pc = "finally"])
    /\ UNCHANGED <<read_only, screen, toast, view>>
    /\ UNCHANGED guardVars

\* _do_<op>, finally: client.config.read_only = True; the worker ends
WorkerFinallyNoReset(w) ==
    /\ w.pc = "finally"
    /\ read_only' = read_only
    /\ workers' = Ended(w)
    /\ UNCHANGED <<screen, toast, view>>
    /\ UNCHANGED guardVars

WorkerFinally(w) ==
    /\ w.pc = "finally"
    /\ read_only' = TRUE
    /\ workers' = Ended(w)
    /\ UNCHANGED <<screen, toast, view>>
    /\ UNCHANGED guardVars

WorkerStep ==
    \E w \in InFlight :
        \/ WorkerBegin(w)
        \/ OpCall(w)
        \/ SdkReturn(w)
        \/ \E m \in Msgs : SdkRaise(w, m)
        \/ WorkerReport(w)
        \/ WorkerReportRaises(w)
        \/ WorkerFinally(w)

AppNext ==
    \/ AppTick
    \/ ToggleArmed
    \/ PressEscape
    \/ \E s \in Screens : GoScreen(s)
    \/ \E op \in ScreenOps(screen) : \E sel \in Selections(op) : Request(op, sel)
    \/ WorkerStep

AppSpec == AppInit /\ [][AppNext]_vars

\* the screens with the operator triggering one destructive action at a time:
\* a handler runs only while no worker is in flight
SoloNext ==
    \/ AppTick
    \/ ToggleArmed
    \/ PressEscape
    \/ \E s \in Screens : GoScreen(s)
    \/ \E op \in ScreenOps(screen) : \E sel \in Selections(op) :
            AllIdle /\ Request(op, sel)
    \/ WorkerStep

SoloSpec == AppInit /\ [][SoloNext]_vars

-----------------------------------------------------------------------------
(* The list views: background fetches and what the tables show *)

Jobs == 1..MaxJobs

ViewScreens == {"clusters", "jobs"}

\* @work(thread=True, exclusive=True): starting the worker cancels the
\* workers of the group.  A cancelled worker whose thread has not started
\* never runs; one whose thread is already running is not stopped and
\* nothing in _load_clusters / _load_jobs looks at the cancellation.
StartExclusive(fetches, n) ==
    {f \in fetches : f.pc # "queued"} \cup {[n |-> n, pc |-> "queued"]}

\* JobsScreen._select_job: remember the job and start a load of its runs
\* (@work(thread=True), not exclusive).  Two loads of one job in flight
\* behave as one.
select_job(v, j) ==
    [v EXCEPT !.selected_job = j, !.loads = v.loads \cup {[job |-> j]}]

\* _refresh_data -> _load_clusters / _load_jobs: called on mount, by
\* action_refresh and after a successful action
RefreshData ==
    /\ screen \in ViewScreens
    /\ view.started < MaxFetches
    /\ view' = [view EXCEPT !.started = view.started + 1,
                            !.fetches = StartExclusive(view.fetches,
                                                       view.started + 1)]
    /\ UNCHANGED <<read_only, workers, screen, toast>>
    /\ UNCHANGED guardVars

\* the thread of a queued fetch starts and issues the list call
FetchStart(f) ==
    /\ f.pc = "queued"
    /\ view' = [view EXCEPT !.fetches = (view.fetches \ {f})
                                \cup {[f EXCEPT !.pc = "fetching"]}]
    /\ UNCHANGED <<read_only, workers, screen, toast>>
    /\ UNCHANGED guardVars

\* the list call returns and call_from_thread runs _update_table /
\* _update_jobs_table on the UI thread: the table is replaced by the rows
\* of this fetch, whatever it showed; with rows, the first one is selected,
\* which on the jobs screen starts a load of its runs
FetchReturn(f) ==
    /\ f.pc = "fetching"
    /\ \E some \in BOOLEAN :
          LET v == [view EXCEPT !.fetches = view.fetches \ {f},
                                !.table = f.n,
                                !.rows = some] IN
          IF some /\ screen = "jobs"
          THEN /\ Cardinality(view.loads) < MaxLoads
               /\ view' = select_job(v, 1)
          ELSE view' = v
    /\ UNCHANGED <<read_only, workers, screen, toast>>
    /\ UNCHANGED guardVars

\* the list call raises: the except branch has notify_error run on the UI
\* thread, and the table keeps what it showed
FetchRaise(f) ==
    /\ f.pc = "fetching"
    /\ view' = [view EXCEPT !.fetches = view.fetches \ {f}]
    /\ toast' = Toast("error", "failed to load")
    /\ UNCHANGED <<read_only, workers, screen>>
    /\ UNCHANGED guardVars

\* JobsScreen.on_data_table_row_highlighted for a row of the jobs table
HighlightJob(j) ==
    /\ screen = "jobs"
    /\ view.rows
    /\ Cardinality(view.loads) < MaxLoads
    /\ view' = select_job(view, j)
    /\ UNCHANGED <<read_only, workers, screen, toast>>
    /\ UNCHANGED guardVars

\* JobsScreen._load_runs: list_runs returns and call_from_thread runs
\* _update_runs_table on the UI thread: the runs table is replaced by the
\* runs this load fetched, whichever job is selected by now
LoadReturn(l) ==
    /\ view' = [view EXCEPT !.loads = view.loads \ {l}, !.runs_of = l.job]
    /\ UNCHANGED <<read_only, workers, screen, toast>>
    /\ UNCHANGED guardVars

\* list_runs raises: notify_error, and the runs table keeps what it showed
LoadRaise(l) ==
    /\ view' = [view EXCEPT !.loads = view.loads \ {l}]
    /\ toast' = Toast("error", "failed to load")
    /\ UNCHANGED <<read_only, workers, screen>>
    /\ UNCHANGED guardVars

ViewStart == AppInit /\ screen \in ViewScreens

ViewNext ==
    \/ RefreshData
    \/ \E f \in view.fetches :
          \/ FetchStart(f)
          \/ FetchReturn(f)
          \/ FetchRaise(f)
    \/ \E j \in Jobs : HighlightJob(j)
    \/ \E l \in view.loads :
          \/ LoadReturn(l)
          \/ LoadRaise(l)

ViewSpec == ViewStart /\ [][ViewNext]_vars

----------------------------------------------------------------------------
(* Properties of the safe-call convention *)

\* C1: a destructive action requested (with a fitting selection) while the
\* guard's is_armed is false - never armed, disarmed or TTL-expired - starts
\* no worker, so no upstream SDK call is made for it: the workers in flight
\* and the read-only flag are as before, and the operator is told to arm.
\* Checked under AppSpec.
C1_DisarmedRequestMakesNoCall ==
    [][~is_armed(armed_at, now).value =>
          \A op \in ScreenOps(screen) :
              Request(op, "FITS") =>
                  /\ workers' = workers
                  /\ read_only' = read_only
                  /\ toast' = Toast("warning", "arm")]_vars

C1_Witness ==
    /\ toast = Toast("warning", "arm")
    /\ armed_at = 0
    /\ now - 1 > TTLTicks
    /\ AllIdle

\* C2: with no other destructive action in flight, an action requested right
\* after arming (at most one clock tick later) passes the armed check and its
\* worker is started; the worker's operation finds the read-only flag false
\* and reaches the upstream SDK call (exactly one call by the time it has a
\* result).  Checked under SoloSpec.
C2_ArmedRequestReachesSdk ==
    /\ [][\A op \in Ops :
             (/\ AllIdle
              /\ armed_at # 0
              /\ now - armed_at <= 1
              /\ Request(op, "FITS")) => workers' = SetToBag({NewWorker(op)})]_vars
    /\ [](\A w \in InFlight :
             /\ w.pc = "call" => ~read_only
             /\ w.pc \in {"sdk", "report"} => w.calls = 1)

C2_Witness ==
    \E w \in InFlight :
        /\ w.pc = "report"
        /\ w.calls = 1
        /\ w.status = SuccessStatus(w.op)
        /\ armed_at # 0
        /\ now - armed_at <= 1

\* C3: a mutating operation refused because the system is read-only (it made
\* no upstream call) returns status "blocked" with the human-readable reason,
\* a status that neither a failed upstream call ("error") nor a success has.
C3_RefusalIsBlocked ==
    \A w \in InFlight :
        (w.pc = "report" /\ w.calls = 0) =>
            (w.status = "blocked" /\ w.error = ReadOnlyMsg)

\* C4: when the upstream SDK call raises an exception with message m, the
\* operation returns {status: "error", error: m} to its worker (the worker
\* goes on to report it; nothing propagates), and the step changes nothing
\* of the guard.  Checked under AppSpec.
C4_UpstreamErrorIsReturned ==
    /\ [](\A w \in InFlight :
             w.exc # "none" =>
                 /\ w.status = "error"
                 /\ w.error = w.exc
                 /\ w.pc \in {"report", "finally"})
    /\ [][(\E w \in InFlight : \E m \in Msgs : SdkRaise(w, m)) =>
              (armed_at' = armed_at /\ ttl_seconds' = ttl_seconds)]_vars

C4_Witness ==
    \E w \in InFlight :
        /\ w.pc = "report"
        /\ w.exc = "network unreachable"
        /\ w.status = "error"
        /\ armed_at # 0

\* C5: in every reachable state in which no destructive worker is in flight,
\* config.read_only is true.  Checked under AppSpec.
C5_ReadOnlyRestored ==
    AllIdle => read_only = TRUE

C5_Witness ==
    /\ AllIdle
    /\ read_only = TRUE
    /\ toast = Toast("error", "network unreachable")

\* C6: whenever a mutating operation checks the read-only flag, the flag
\* equals NOT is_armed read at that moment.
C6_FlagIsInverseOfGuard ==
    [][\A w \in InFlight :
          OpCall(w) => (is_read_only <=> ~is_armed(armed_at, now).value)]_vars

----------------------------------------------------------------------------
(* Properties of the guard, checked under Spec *)

\* C7: a guard that has never been armed (arm() was never called, whatever
\* disarm() calls, reads and time advances happened) reads is_armed = false
\* and remaining_seconds = 0, for every ttl_seconds.
C7_FreshGuardDisarmed ==
    (read.kind # "none" /\ read.last_arm = 0) =>
        (~read.armed /\ read.value = 0 /\ read.left = 0)

C7_Witness ==
    /\ read.kind = "remaining_seconds"
    /\ read.last_arm = 0
    /\ read.t > 1
    /\ read.value = 0

\* C8: for every ttl_seconds > 0, a read made right after arm() (at most one
\* clock tick later, no disarm() in between) gives is_armed = true and
\* 0 < remaining_seconds <= ttl_seconds.
C8_ArmThenRead ==
    (/\ read.kind = "remaining_seconds"
     /\ read.at # 0
     /\ read.at = read.last_arm
     /\ read.t2 - read.at <= 1) =>
        (read.armed /\ 0 < read.value /\ read.value <= ttl_seconds)

\* C9: is_armed returns true exactly when an armed timestamp is present and
\* the time elapsed since it is at most ttl_seconds: still armed when the
\* elapsed time equals ttl_seconds, disarmed for any larger elapsed time.
C9_IsArmedIffWithinTTL ==
    (read.kind # "none") =>
        (read.armed <=> (read.at # 0 /\ read.t - read.at <= TTLTicks))

C9_Witness ==
    /\ read.kind = "is_armed"
    /\ read.at # 0
    /\ read.t - read.at = TTLTicks
    /\ read.armed

\* C10: once more than ttl_seconds have elapsed since the last arm(), every
\* read reports disarmed (is_armed false, remaining_seconds 0) and leaves
\* the stored armed timestamp cleared.
C10_ExpiredStaysDisarmed ==
    (/\ read.kind # "none"
     /\ read.last_arm # 0
     /\ read.t - read.last_arm > TTLTicks) =>
        (~read.armed /\ read.value = 0 /\ read.left = 0)

C10_Witness ==
    /\ read.kind = "is_armed"
    /\ read.at # 0
    /\ read.at = read.last_arm
    /\ read.t - read.last_arm > TTLTicks
    /\ ~read.armed
    /\ read.left = 0

\* C11: disarm() leaves the guard disarmed from any state: in the state it
\* leaves, is_armed is false and remaining_seconds is 0 (a disarm() of an
\* already disarmed guard changes nothing), and every read that finds the
\* cleared timestamp reports disarmed, 0 seconds, and leaves it cleared.
C11_DisarmDisarms ==
    /\ [][Disarm =>
              /\ armed_at' = 0
              /\ ~is_armed(armed_at', now').value
              /\ remaining_seconds(armed_at', now', now').value = 0
              /\ (armed_at = 0 => UNCHANGED vars)]_vars
    /\ []((read.kind # "none" /\ read.at = 0) =>
              (~read.armed /\ read.value = 0 /\ read.left = 0))

\* a read inside the TTL window of the last arm() that found the timestamp
\* cleared: disarm() was called in between
C11_Witness ==
    /\ read.kind = "remaining_seconds"
    /\ read.last_arm # 0
    /\ read.t2 - read.last_arm < TTLTicks
    /\ read.at = 0
    /\ ~read.armed
    /\ read.value = 0
    /\ armed_at = 0

\* the latest read was made after a re-arm: the latest arm() found the guard
\* armed some time t, 0 < t < ttl_seconds, after the previous arm(), and the
\* read found the timestamp still present (no disarm() since)
ReadAfterRearm ==
    /\ read.kind # "none"
    /\ read.last_arm = last_arm
    /\ read.at # 0
    /\ prev_arm # 0
    /\ prev_arm < last_arm
    /\ last_arm - prev_arm < TTLTicks

\* C12: arm() on an armed guard restarts the countdown: after arm(), a wait
\* t < ttl_seconds and a second arm(), remaining_seconds read right away
\* (less than a second later) is between ttl_seconds - 1 and ttl_seconds
\* whatever t was, and is_armed stays true until a full ttl_seconds have
\* passed since the second arm().
C12_RearmResetsCountdown ==
    ReadAfterRearm =>
        /\ (read.kind = "remaining_seconds" /\ read.t2 - read.last_arm < TicksPerSec) =>
               /\ read.armed
               /\ ttl_seconds - 1 <= read.value
               /\ read.value <= ttl_seconds
        /\ (read.t - read.last_arm <= TTLTicks) => read.armed

\* a read right after a re-arm that came a second or more after the first
\* arm(): the full TTL is reported, not what was left of the first window
C12_Witness ==
    /\ ReadAfterRearm
    /\ read.kind = "remaining_seconds"
    /\ read.t2 = read.last_arm
    /\ last_arm - prev_arm >= TicksPerSec
    /\ read.armed
    /\ read.value = ttl_seconds

\* C13: remaining_seconds returns 0 when the guard is disarmed or found
\* expired, and otherwise max(0, ttl_seconds - elapsed) rounded down to an
\* integer, elapsed being the time from the last arm() to the clock reading
\* of the subtraction.
C13_RemainingSecondsValue ==
    (read.kind = "remaining_seconds") =>
        IF read.at = 0 \/ read.t - read.last_arm > TTLTicks
        THEN read.value = 0
        ELSE read.value =
                Max(0, (TTLTicks - (read.t2 - read.last_arm)) \div TicksPerSec)

\* a read in the middle of a second: the rounding down shows
C13_Witness ==
    /\ read.kind = "remaining_seconds"
    /\ read.armed
    /\ (read.t2 - read.last_arm) % TicksPerSec # 0
    /\ read.value > 0
    /\ read.value < ttl_seconds

\* C14: two reads of remaining_seconds separated by a positive delay, with
\* no arm() between them (disarm() and lazy expiry may happen), satisfy
\* second <= first.
C14_RemainingNeverIncreases ==
    (/\ read.kind = "remaining_seconds"
     /\ read.before # NoBefore
     /\ read.t > read.before.t2) =>
        read.value <= read.before.value

\* two reads a tick or more apart inside one window, the second one lower
C14_Witness ==
    /\ read.kind = "remaining_seconds"
    /\ read.before # NoBefore
    /\ read.t > read.before.t2
    /\ read.armed
    /\ read.value < read.before.value

\* C15: in every reachable state in which more than ttl_seconds have passed
\* since the last arm(), the stored timestamp is the disarmed sentinel,
\* whether or not the guard has been read since the TTL ran out.
C15_TimestampClearedAfterTTL ==
    (last_arm # 0 /\ now - last_arm > TTLTicks) => armed_at = 0

\* C16: with is_armed (or remaining_seconds) read on another thread while
\* the UI thread calls arm() and disarm(), the lazy-expiry write of a read
\* never undoes a completed arm(): whenever the reading thread clears the
\* timestamp, the timestamp it clears is one whose TTL has run out.
\* Checked under RaceSpec.
C16_ExpiryWriteKeepsArm ==
    [][(/\ reader.pc = "decide"
        /\ reader'.pc = "idle"
        /\ armed_at # 0
        /\ armed_at' = 0) => now - armed_at > TTLTicks]_vars

\* C17: the guard becomes armed only through arm(): every step after which
\* is_armed is true while it was false before is the operator's toggle
\* calling arm(); no armed check, disarm(), worker step (a successful or a
\* failed action) or passage of time arms it.  Checked under AppSpec.
C17_ArmedOnlyByArm ==
    [][(/\ ~is_armed(armed_at, now).value
        /\ is_armed(armed_at', now').value) =>
            (ToggleArmed /\ armed_at' = now)]_vars

\* a failed action has been reported and the guard, armed when the action
\* was requested, is no longer armed
C17_Witness ==
    /\ ~is_armed(armed_at, now).value
    /\ toast = Toast("error", "network unreachable")
    /\ AllIdle
    /\ now > 1

C19_DisarmDoesNotAbort ==
    /\ [][(ToggleArmed \/ AppTick) => workers' = workers]_vars
    /\ [][\A w \in InFlight :
             (~is_armed(armed_at, now).value /\ OpCall(w)) =>
                 \E w2 \in BagToSet(workers') : w2.pc = "sdk" /\ w2.calls = 1]_vars
    /\ [](~AllIdle => ENABLED WorkerStep)
    /\ [](\A w \in InFlight :
             w.pc \in {"report", "finally"} =>
                 /\ w.calls = 1
                 /\ \/ w.status = SuccessStatus(w.op) /\ w.exc = "none"
                    \/ w.status = "error" /\ w.exc # "none" /\ w.error = w.exc)

\* the guard was disarmed while the action was in flight; the action has
\* made its call and its success has been shown
C19_Witness ==
    \E w \in InFlight :
        /\ w.pc = "finally"
        /\ w.calls = 1
        /\ w.status = SuccessStatus(w.op)
        /\ armed_at = 0
        /\ toast = Toast("information", "success")

\* C20: for every mutating action of every screen, when the guard was armed
\* and the upstream SDK call succeeded, the notification the worker posts
\* is the information-level success one, not an error.
C20_SuccessIsShownAsSuccess ==
    [][\A w \in InFlight :
          (w.calls = 1 /\ w.exc = "none" /\ WorkerReport(w)) =>
              toast' = Toast("information", "success")]_vars

\* C21: status_display contains "ARMED" and a countdown exactly when is_armed,
\* read at the instant status_display reads it, is true; it contains
\* "READ-ONLY" exactly when is_armed is false; it never contains both.
C21_StatusDisplayFollowsIsArmed ==
    read.kind = "status_display" =>
        /\ is_armed(read.at, read.t).value
              <=> {"ARMED", "countdown"} \subseteq read.display.parts
        /\ ~is_armed(read.at, read.t).value
              <=> "READ-ONLY" \in read.display.parts
        /\ ~({"ARMED", "READ-ONLY"} \subseteq read.display.parts)

C21_Witness ==
    /\ read.kind = "status_display"
    /\ read.armed
    /\ read.display.parts = {"ARMED", "countdown"}
    /\ read.display.seconds = 0
    /\ read.t2 > read.t

\* C22: the toggle disarms when the guard is armed and arms it otherwise:
\* is_armed right after a toggle is the negation of is_armed right before
\* it, so two toggles within the TTL, starting disarmed, end disarmed.
C22_ToggleNegatesIsArmed ==
    [][ToggleArmed =>
          (is_armed(armed_at', now').value <=> ~is_armed(armed_at, now).value)]_vars

C22_Witness ==
    /\ toast = Toast("information", "disarmed")
    /\ armed_at = 0
    /\ now = 1

\* C23: while the guard is armed, pressing Escape on a main screen leaves
\* the guard disarmed.
C23_EscapeDisarms ==
    (is_armed(armed_at, now).value /\ screen \in Screens) =>
        ENABLED (PressEscape /\ ~is_armed(armed_at', now').value)

\* C24: after each header status refresh, the header's is_armed equals the
\* guard's is_armed as read by that refresh, and armed_display is the
\* "ARMED (Ns)" form when that is true and "READ-ONLY" otherwise.
C24_HeaderFollowsGuard ==
    read.kind = "header" =>
        /\ read.display.is_armed = is_armed(read.at, read.t).value
        /\ read.display.is_armed =>
              /\ read.display.parts = {"ARMED", "countdown"}
              /\ read.display.seconds >= 0
        /\ ~read.display.is_armed => read.display.parts = {"READ-ONLY"}

C24_Witness ==
    /\ read.kind = "header"
    /\ read.display.is_armed
    /\ read.display.parts = {"ARMED", "countdown"}
    /\ read.display.seconds = 1
    /\ read.at = read.last_arm

\* C25: two destructive actions that both passed the armed check run on
\* separate workers; the cleanup of one can set config.read_only back to true
\* before the operation of the other checks it, and that operation is then
\* refused as read-only without an upstream call, although the guard is
\* still armed.  A refused operation never made a call; the witness is the
\* refusal with the guard armed.  Checked under AppSpec.
C25_RefusedWorkerMadeNoCall ==
    \A w \in InFlight :
        (w.pc \in {"report", "finally"} /\ w.error = ReadOnlyMsg) =>
            (w.calls = 0 /\ w.status = "error" /\ w.exc = "none")

C25_Witness ==
    \E w \in InFlight :
        /\ w.pc = "report"
        /\ w.error = ReadOnlyMsg
        /\ w.calls = 0
        /\ BagCardinality(workers) = 1
        /\ read_only = TRUE
        /\ is_armed(armed_at, now).value
        /\ now = 1

\* C26: a list fetch started while an earlier fetch of the same view is in
\* flight: the result of the earlier fetch is not applied after that of the
\* newer one, so the table never goes back to an earlier fetch.
C26_StaleFetchNotApplied ==
    [][\A f \in view.fetches : FetchReturn(f) => f.n >= view.table]_vars

\* C30: on the jobs screen, once no run-list load is in flight (and none has
\* failed), the runs table shows the runs of the currently selected job.
C30_RunsOfSelectedJob ==
    (/\ screen = "jobs"
     /\ view.loads = {}
     /\ view.selected_job # 0
     /\ toast.severity # "error") =>
        view.runs_of = view.selected_job

C28_ArmedShowsAtLeastOne ==
    (/\ read.kind \in {"status_display", "header"}
     /\ read.armed
     /\ read.t2 = read.t) =>
        read.display.seconds >= 1

\* C29: under any interleaving of arm(), disarm() and reads, remaining_seconds
\* returns an integer in 0..ttl_seconds.
C29_RemainingInRange ==
    read.kind = "remaining_seconds" => read.value \in 0..ttl_seconds

C29_Witness ==
    /\ read.kind = "remaining_seconds"
    /\ read.value = ttl_seconds
    /\ ttl_seconds = MaxTTL
    /\ read.at = last_arm
    /\ prev_arm # 0

====
